---- MODULE Spec2Model ----
(***************************************************************************)
(* pdfcli: the pdfcore facade (merge, split_pages, extract_text, rotate,   *)
(* compress, info), its tool locator and its process runner, and the       *)
(* command line's rotate (cmd_rotate, parse_page_selection).               *)
(*                                                                         *)
(* The library keeps no state between calls.  What a call can observe is   *)
(* the environment: which paths exist, the override variables, and which   *)
(* executable names resolve on the search path.  A behaviour is one        *)
(* environment and one facade call made in it.  Every call records the     *)
(* environment reads and the process spawn it performs, in order, in       *)
(* `trace`.                                                                *)
(*                                                                         *)
(* Text (a Rust String) is a sequence of Unicode code points; process      *)
(* output (Vec<u8>) is a sequence of bytes.  Paths and fixed messages are   *)
(* opaque strings.                                                         *)
(***************************************************************************)
EXTENDS Integers, Sequences, FiniteSets, TLC

VARIABLES
    files,      \* the paths that exist on disk
    environ,    \* override variable -> its value, or Unset
    onPath,     \* the executable names that resolve on the search path
    pc,         \* "idle" before the call, "done" after it returned
    call,       \* the facade call made: operation and arguments
    result,     \* what the call returned
    trace       \* the environment reads and spawns of the call, in order

vars == <<files, environ, onPath, pc, call, result, trace>>

----------------------------------------------------------------------------
(* Bounds of the model *)

MaxInputs == 2      \* longest input list handed to merge
MaxPage == 1        \* largest page number in a PageSelection::Range
MaxEntries == 2     \* most entries in an Info dictionary
MaxKids == 2        \* most kids of a page tree node
MaxConfigured == 1  \* most tools that are overridden or installed at once

----------------------------------------------------------------------------
(* Values *)

Unset == "<unset>"
None == "<none>"

InputPaths == {"a.pdf", "b.pdf"}
OverridePaths == {"/opt/tool"}
AllPaths == InputPaths \cup OverridePaths
OutputPath == "out.pdf"
\* An output path that is not Unicode: "out", the byte 0xFF, ".pdf".
NonUnicodeOutputPath == "out<FF>.pdf"
TextOutputPath == "out.txt"

Ok(v) == [kind |-> "Ok", value |-> v]
Unit == <<>>
InputNotFound(path) == [kind |-> "InputNotFound", path |-> path]
PdfParse(path) == [kind |-> "PdfParse", path |-> path]
MissingTool(tool, hint) == [kind |-> "MissingTool", tool |-> tool, hint |-> hint]
ToolFailed(tool, command, status, out, err) ==
    [kind |-> "ToolFailed", tool |-> tool, command |-> command,
     status |-> status, stdout |-> out, stderr |-> err]
Io(what) == [kind |-> "Io", what |-> what]
InvalidArgument(msg) == [kind |-> "InvalidArgument", msg |-> msg]

IsOk(r) == r.kind = "Ok"

\* One entry of the trace.
Event(ev, arg, ans) == [ev |-> ev, arg |-> arg, ans |-> ans]

\* What a function returns together with what it did to get there.
Ret(res, tr) == [res |-> res, trace |-> tr]

----------------------------------------------------------------------------
(* Text *)

RECURSIVE Decimal(_)
\* Display of an unsigned integer: its decimal digits.
Decimal(n) ==
    IF n < 10 THEN <<48 + n>> ELSE Decimal(n \div 10) \o <<48 + (n % 10)>>

\* Display of a signed integer.
SignedDecimal(i) == IF i < 0 THEN <<45>> \o Decimal(0 - i) ELSE Decimal(i)

IsContinuation(b) == b >= 128 /\ b <= 191

RECURSIVE FromUtf8Lossy(_)
\* String::from_utf8_lossy on bytes below 0xE0 or above 0xF4: ASCII is kept,
\* a two-byte sequence is decoded, every other byte becomes U+FFFD.
FromUtf8Lossy(bytes) ==
    IF bytes = <<>> THEN <<>>
    ELSE LET b == Head(bytes)
             rest == Tail(bytes)
         IN  IF b < 128 THEN <<b>> \o FromUtf8Lossy(rest)
             ELSE IF b >= 194 /\ b <= 223 /\ rest # <<>> /\ IsContinuation(Head(rest))
                  THEN <<(b - 192) * 64 + (Head(rest) - 128)>> \o FromUtf8Lossy(Tail(rest))
                  ELSE <<65533>> \o FromUtf8Lossy(rest)

----------------------------------------------------------------------------
(* enum Tool *)

Tools == {"Qpdf", "Pdftotext", "Ghostscript"}

name(tool) ==
    CASE tool = "Qpdf" -> "qpdf"
      [] tool = "Pdftotext" -> "pdftotext"
      [] tool = "Ghostscript" -> "ghostscript"

env_override(tool) ==
    CASE tool = "Qpdf" -> "PDFCLI_QPDF"
      [] tool = "Pdftotext" -> "PDFCLI_PDFTOTEXT"
      [] tool = "Ghostscript" -> "PDFCLI_GS"

default_exe_names(tool) ==
    CASE tool = "Qpdf" -> <<"qpdf">>
      [] tool = "Pdftotext" -> <<"pdftotext">>
      [] tool = "Ghostscript" -> <<"gs", "gswin64c", "gswin32c">>

install_hint(tool) ==
    LET mac == IF tool = "Ghostscript" THEN <<"brew install ghostscript">>
               ELSE <<"brew install ", name(tool)>>
        ubuntu == CASE tool = "Pdftotext" ->
                          "sudo apt-get update && sudo apt-get install -y poppler-utils"
                    [] tool = "Ghostscript" ->
                          "sudo apt-get update && sudo apt-get install -y ghostscript"
                    [] tool = "Qpdf" ->
                          "sudo apt-get update && sudo apt-get install -y qpdf"
        windows == CASE tool = "Ghostscript" ->
                           "choco install ghostscript OR scoop install ghostscript"
                     [] tool = "Pdftotext" ->
                           "choco install poppler OR scoop install poppler"
                     [] tool = "Qpdf" -> "choco install qpdf OR scoop install qpdf"
    IN  <<"Set ", env_override(tool), " to a full path, or install:\n  macOS: ">>
        \o mac \o <<"\n  Ubuntu/Debian: ", ubuntu, "\n  Windows: ", windows>>

ExeNames == UNION {{default_exe_names(t)[i] : i \in DOMAIN default_exe_names(t)} : t \in Tools}
EnvVars == {env_override(t) : t \in Tools}

\* which::which(exe): the path the name resolves to on the search path.
Which(exe) ==
    CASE exe = "qpdf" -> "/usr/bin/qpdf"
      [] exe = "pdftotext" -> "/usr/bin/pdftotext"
      [] exe = "gs" -> "/usr/bin/gs"
      [] exe = "gswin64c" -> "/usr/bin/gswin64c"
      [] exe = "gswin32c" -> "/usr/bin/gswin32c"

----------------------------------------------------------------------------
(* validate_input_file *)

validate_input_file(path, fs) ==
    Ret(IF path \notin fs THEN InputNotFound(path) ELSE Ok(Unit),
        <<Event("exists", path, path \in fs)>>)

----------------------------------------------------------------------------
(* find_tool *)

\* The loop over default_exe_names as it would be if it probed every name and
\* returned the last one that resolves.
ProbeDefaults_ReturnsLast(tool, names, i, path) ==
    LET hits == {k \in DOMAIN names : names[k] \in path}
        probes == [k \in DOMAIN names |-> Event("which", names[k], names[k] \in path)]
    IN  IF hits = {}
        THEN Ret(MissingTool(name(tool), install_hint(tool)), probes)
        ELSE Ret(Ok(Which(names[CHOOSE k \in hits : \A j \in hits : j <= k])), probes)

RECURSIVE ProbeDefaults(_, _, _, _)
\* The loop over default_exe_names: probe each name in turn, return the first hit.
ProbeDefaults(tool, names, i, path) ==
    IF i > Len(names)
    THEN Ret(MissingTool(name(tool), install_hint(tool)), <<>>)
    ELSE IF names[i] \in path
         THEN Ret(Ok(Which(names[i])), <<Event("which", names[i], TRUE)>>)
         ELSE LET rest == ProbeDefaults(tool, names, i + 1, path)
              IN  Ret(rest.res, <<Event("which", names[i], FALSE)>> \o rest.trace)

\* find_tool as it would be if an override naming no file fell back to the
\* default names.
find_tool_FallsBack(tool, env, fs, path) ==
    LET var == env_override(tool)
        val == env[var]
        read == <<Event("var_os", var, val)>>
    IN  IF val # Unset /\ val \in fs
        THEN Ret(Ok(val), read \o <<Event("exists", val, TRUE)>>)
        ELSE LET probe == ProbeDefaults(tool, default_exe_names(tool), 1, path)
             IN  Ret(probe.res, read \o probe.trace)

find_tool(tool, env, fs, path) ==
    LET var == env_override(tool)
        val == env[var]
        read == <<Event("var_os", var, val)>>
    IN  IF val # Unset
        THEN IF val \in fs
             THEN Ret(Ok(val), read \o <<Event("exists", val, TRUE)>>)
             ELSE Ret(MissingTool(name(tool),
                                  <<var, " was set to ", val,
                                    ", but that path does not exist.\n\n">>
                                  \o install_hint(tool)),
                      read \o <<Event("exists", val, FALSE)>>)
        ELSE LET probe == ProbeDefaults(tool, default_exe_names(tool), 1, path)
             IN  Ret(probe.res, read \o probe.trace)

----------------------------------------------------------------------------
(* run_tool, run_tool_capture *)

\* std::process::ExitStatus: the process exited with a code, or was ended by a
\* signal and has none.
Exited(code) == [signaled |-> FALSE, code |-> code]
Signaled == [signaled |-> TRUE, code |-> 0]
success(status) == ~status.signaled /\ status.code = 0
code_unwrap_or(status, default) == IF status.signaled THEN default ELSE status.code

\* What Command::output() meets: the spawn fails, or the process runs to its
\* end and leaves an exit status and the bytes it wrote.
SpawnError == [spawned |-> FALSE, status |-> Signaled, stdout |-> <<>>, stderr |-> <<>>]
Ran(status, out, err) == [spawned |-> TRUE, status |-> status, stdout |-> out, stderr |-> err]

\* The diagnostic command line.  No argument of the model contains a space, so
\* shell_escape leaves each argument as it is.
command_to_string(program, args) == <<program>> \o args

\* run_tool as it would be if it took every finished process for a success.
run_tool_IgnoresStatus(tool, program, args, proc) ==
    LET spawn == <<Event("spawn", [program |-> program, args |-> args], proc)>>
    IN  IF ~proc.spawned THEN Ret(Io("spawn"), spawn) ELSE Ret(Ok(Unit), spawn)

\* run_tool as it would be if it ran the command a second time after a
\* failure.
run_tool_Retries(tool, program, args, proc) ==
    LET command_str == command_to_string(program, args)
        spawn == <<Event("spawn", [program |-> program, args |-> args], proc)>>
    IN  IF ~proc.spawned THEN Ret(Io("spawn"), spawn \o spawn)
        ELSE IF success(proc.status) THEN Ret(Ok(Unit), spawn)
        ELSE Ret(ToolFailed(name(tool), command_str, code_unwrap_or(proc.status, -1),
                            FromUtf8Lossy(proc.stdout), FromUtf8Lossy(proc.stderr)),
                 spawn \o spawn)

run_tool(tool, program, args, proc) ==
    LET command_str == command_to_string(program, args)
        spawn == <<Event("spawn", [program |-> program, args |-> args], proc)>>
    IN  IF ~proc.spawned THEN Ret(Io("spawn"), spawn)
        ELSE IF success(proc.status) THEN Ret(Ok(Unit), spawn)
        ELSE Ret(ToolFailed(name(tool), command_str, code_unwrap_or(proc.status, -1),
                            FromUtf8Lossy(proc.stdout), FromUtf8Lossy(proc.stderr)),
                 spawn)

run_tool_capture(tool, program, args, proc) ==
    LET command_str == command_to_string(program, args)
        spawn == <<Event("spawn", [program |-> program, args |-> args], proc)>>
    IN  IF ~proc.spawned THEN Ret(Io("spawn"), spawn)
        ELSE IF success(proc.status) THEN Ret(Ok(FromUtf8Lossy(proc.stdout)), spawn)
        ELSE Ret(ToolFailed(name(tool), command_str, code_unwrap_or(proc.status, -1),
                            FromUtf8Lossy(proc.stdout), FromUtf8Lossy(proc.stderr)),
                 spawn)

----------------------------------------------------------------------------
(* enum CompressPreset, enum PageSelection *)

CompressPresets == {"Screen", "Ebook", "Printer", "Prepress", "Default"}

as_gs_setting(preset) ==
    CASE preset = "Screen" -> "/screen"
      [] preset = "Ebook" -> "/ebook"
      [] preset = "Printer" -> "/printer"
      [] preset = "Prepress" -> "/prepress"
      [] preset = "Default" -> "/default"

All == [sel |-> "All", start |-> 0, end |-> 0]
Range(start, end) == [sel |-> "Range", start |-> start, end |-> end]
NoSelection == [sel |-> "None", start |-> 0, end |-> 0]

\* to_qpdf_arg as it would be if it rendered All the way Display does, "all".
to_qpdf_arg_RendersAll(sel) ==
    IF sel.sel = "All" THEN <<97, 108, 108>>
    ELSE Decimal(sel.start) \o <<45>> \o Decimal(sel.end)

\* None, or Some(text): the text is never empty, so <<>> stands for None.
to_qpdf_arg(sel) ==
    IF sel.sel = "All" THEN <<>>
    ELSE Decimal(sel.start) \o <<45>> \o Decimal(sel.end)

----------------------------------------------------------------------------
(* The facade: merge, split_pages, extract_text, rotate, compress *)

RECURSIVE ValidateAll(_, _, _)
\* The loop `for p in inputs { validate_input_file(p)? }`.
ValidateAll(inputs, i, fs) ==
    IF i > Len(inputs) THEN Ret(Ok(Unit), <<>>)
    ELSE LET v == validate_input_file(inputs[i], fs)
         IN  IF ~IsOk(v.res) THEN v
             ELSE LET rest == ValidateAll(inputs, i + 1, fs)
                  IN  Ret(rest.res, v.trace \o rest.trace)

\* merge as it would be if it located qpdf before it checked the inputs.
merge_LocatesFirst(inputs, output, fs, env, path, proc) ==
    IF inputs = <<>>
    THEN Ret(InvalidArgument("merge requires at least one input"), <<>>)
    ELSE LET qpdf == find_tool("Qpdf", env, fs, path)
         IN  IF ~IsOk(qpdf.res) THEN qpdf
             ELSE LET v == ValidateAll(inputs, 1, fs)
                  IN  IF ~IsOk(v.res) THEN Ret(v.res, qpdf.trace \o v.trace)
                      ELSE LET args == <<"--empty", "--pages">> \o inputs \o <<"--", output>>
                               run == run_tool("Qpdf", qpdf.res.value, args, proc)
                           IN  Ret(run.res, qpdf.trace \o v.trace \o run.trace)

\* merge as it would be without the check for an empty input list.
merge_NoEmptyCheck(inputs, output, fs, env, path, proc) ==
    LET v == ValidateAll(inputs, 1, fs)
    IN  IF ~IsOk(v.res) THEN v
        ELSE LET qpdf == find_tool("Qpdf", env, fs, path)
             IN  IF ~IsOk(qpdf.res) THEN Ret(qpdf.res, v.trace \o qpdf.trace)
                 ELSE LET args == <<"--empty", "--pages">> \o inputs \o <<"--", output>>
                          run == run_tool("Qpdf", qpdf.res.value, args, proc)
                      IN  Ret(run.res, v.trace \o qpdf.trace \o run.trace)

\* merge as it would be if it handed qpdf the inputs last to first.
merge_ReversesInputs(inputs, output, fs, env, path, proc) ==
    IF inputs = <<>>
    THEN Ret(InvalidArgument("merge requires at least one input"), <<>>)
    ELSE LET v == ValidateAll(inputs, 1, fs)
         IN  IF ~IsOk(v.res) THEN v
             ELSE LET qpdf == find_tool("Qpdf", env, fs, path)
                  IN  IF ~IsOk(qpdf.res) THEN Ret(qpdf.res, v.trace \o qpdf.trace)
                      ELSE LET args == <<"--empty", "--pages">>
                                       \o [k \in DOMAIN inputs |-> inputs[Len(inputs) + 1 - k]]
                                       \o <<"--", output>>
                               run == run_tool("Qpdf", qpdf.res.value, args, proc)
                           IN  Ret(run.res, v.trace \o qpdf.trace \o run.trace)

merge(inputs, output, fs, env, path, proc) ==
    IF inputs = <<>>
    THEN Ret(InvalidArgument("merge requires at least one input"), <<>>)
    ELSE LET v == ValidateAll(inputs, 1, fs)
         IN  IF ~IsOk(v.res) THEN v
             ELSE LET qpdf == find_tool("Qpdf", env, fs, path)
                  IN  IF ~IsOk(qpdf.res) THEN Ret(qpdf.res, v.trace \o qpdf.trace)
                      ELSE LET args == <<"--empty", "--pages">> \o inputs \o <<"--", output>>
                               run == run_tool("Qpdf", qpdf.res.value, args, proc)
                           IN  Ret(run.res, v.trace \o qpdf.trace \o run.trace)

\* "page-%d.pdf"
PageFileName == <<112, 97, 103, 101, 45, 37, 100, 46, 112, 100, 102>>

\* str::contains("%d")
ContainsPercentD(text) ==
    \E i \in 1..(Len(text) - 1) : text[i] = 37 /\ text[i + 1] = 100

\* PathBuf::from(out_dir) followed by push(file): the separator is added unless
\* the directory is empty or already ends with it.
PathPush(dir, file) ==
    IF dir = <<>> \/ dir[Len(dir)] = 47 THEN dir \o file ELSE dir \o <<47>> \o file

split_pages(input, out_dir, pattern, fs, env, path, proc) ==
    LET v == validate_input_file(input, fs)
    IN  IF ~IsOk(v.res) THEN v
        ELSE LET qpdf == find_tool("Qpdf", env, fs, path)
             IN  IF ~IsOk(qpdf.res) THEN Ret(qpdf.res, v.trace \o qpdf.trace)
                 ELSE LET pat == IF pattern.some THEN pattern.text
                                 ELSE PathPush(out_dir, PageFileName)
                      IN  IF ~ContainsPercentD(pat)
                          THEN Ret(InvalidArgument("split_pages pattern must contain %d"),
                                   v.trace \o qpdf.trace)
                          ELSE LET args == <<"--split-pages", input, pat>>
                                   run == run_tool("Qpdf", qpdf.res.value, args, proc)
                               IN  Ret(run.res, v.trace \o qpdf.trace \o run.trace)

\* extract_text as it would be if it returned the captured stdout whether or
\* not an output path was given.
extract_text_AlwaysCaptures(input, output, fs, env, path, proc) ==
    LET v == validate_input_file(input, fs)
    IN  IF ~IsOk(v.res) THEN v
        ELSE LET pdftotext == find_tool("Pdftotext", env, fs, path)
             IN  IF ~IsOk(pdftotext.res) THEN Ret(pdftotext.res, v.trace \o pdftotext.trace)
                 ELSE LET run == run_tool_capture("Pdftotext", pdftotext.res.value,
                                                  <<input, IF output # None THEN output ELSE "-">>,
                                                  proc)
                      IN  Ret(run.res, v.trace \o pdftotext.trace \o run.trace)

extract_text(input, output, fs, env, path, proc) ==
    LET v == validate_input_file(input, fs)
    IN  IF ~IsOk(v.res) THEN v
        ELSE LET pdftotext == find_tool("Pdftotext", env, fs, path)
             IN  IF ~IsOk(pdftotext.res) THEN Ret(pdftotext.res, v.trace \o pdftotext.trace)
                 ELSE IF output # None
                      THEN LET run == run_tool("Pdftotext", pdftotext.res.value,
                                               <<input, output>>, proc)
                           IN  Ret(IF IsOk(run.res) THEN Ok(<<>>) ELSE run.res,
                                   v.trace \o pdftotext.trace \o run.trace)
                      ELSE LET run == run_tool_capture("Pdftotext", pdftotext.res.value,
                                                       <<input, "-">>, proc)
                           IN  Ret(run.res, v.trace \o pdftotext.trace \o run.trace)

rotate(input, output, degrees, pages, fs, env, path, proc) ==
    LET v == validate_input_file(input, fs)
    IN  IF ~IsOk(v.res) THEN v
        ELSE LET qpdf == find_tool("Qpdf", env, fs, path)
             IN  IF ~IsOk(qpdf.res) THEN Ret(qpdf.res, v.trace \o qpdf.trace)
                 ELSE IF degrees \notin {0, 90, 180, 270}
                      THEN Ret(InvalidArgument("degrees must be 0, 90, 180, or 270"),
                               v.trace \o qpdf.trace)
                      ELSE LET sel == IF pages.sel = "None" THEN All ELSE pages
                               arg == to_qpdf_arg(sel)
                               rotate_arg == <<43>> \o Decimal(degrees)
                                             \o (IF arg # <<>> THEN <<58>> \o arg ELSE <<>>)
                               args == <<"--rotate", rotate_arg, input, output>>
                               run == run_tool("Qpdf", qpdf.res.value, args, proc)
                           IN  Ret(run.res, v.trace \o qpdf.trace \o run.trace)

\* Path::display: the path as text, lossily: what is not Unicode in it becomes
\* U+FFFD.
display(path) == IF path = NonUnicodeOutputPath THEN "out<U+FFFD>.pdf" ELSE path

compress(input, output, preset, fs, env, path, proc) ==
    LET v == validate_input_file(input, fs)
    IN  IF ~IsOk(v.res) THEN v
        ELSE LET gs == find_tool("Ghostscript", env, fs, path)
             IN  IF ~IsOk(gs.res) THEN Ret(gs.res, v.trace \o gs.trace)
                 ELSE LET args == <<"-sDEVICE=pdfwrite", "-dCompatibilityLevel=1.4",
                                    <<"-dPDFSETTINGS=", as_gs_setting(preset)>>,
                                    "-dNOPAUSE", "-dBATCH", "-dSAFER",
                                    <<"-sOutputFile=", display(output)>>, input>>
                          run == run_tool("Ghostscript", gs.res.value, args, proc)
                      IN  Ret(run.res, v.trace \o gs.trace \o run.trace)

----------------------------------------------------------------------------
(* The PDF object model, as far as info reads it *)

Obj(kind, val) == [kind |-> kind, val |-> val]

\* Object::as_reference, Object::as_dict: Ok for that kind alone.
IsReference(obj) == obj.kind = "Reference"
IsDict(obj) == obj.kind = "Dictionary"

\* Display of a real with one decimal digit, given in tenths: 2.5 is "2.5",
\* 2.0 is "2".
RealText(tenths) ==
    LET a == IF tenths < 0 THEN 0 - tenths ELSE tenths
    IN  (IF tenths < 0 THEN <<45>> ELSE <<>>) \o Decimal(a \div 10)
        \o (IF a % 10 = 0 THEN <<>> ELSE <<46, 48 + (a % 10)>>)

\* "true", "false"
BoolText(b) == IF b THEN <<116, 114, 117, 101>> ELSE <<102, 97, 108, 115, 101>>

NoText == [some |-> FALSE, text |-> <<>>]
SomeText(t) == [some |-> TRUE, text |-> t]

\* pdf_object_to_string as it would be without the Boolean arm.
pdf_object_to_string_DropsBoolean(obj) ==
    CASE obj.kind = "String" -> SomeText(FromUtf8Lossy(obj.val))
      [] obj.kind = "Name" -> SomeText(FromUtf8Lossy(obj.val))
      [] obj.kind = "Integer" -> SomeText(SignedDecimal(obj.val))
      [] obj.kind = "Real" -> SomeText(RealText(obj.val))
      [] OTHER -> NoText

pdf_object_to_string(obj) ==
    CASE obj.kind = "String" -> SomeText(FromUtf8Lossy(obj.val))
      [] obj.kind = "Name" -> SomeText(FromUtf8Lossy(obj.val))
      [] obj.kind = "Integer" -> SomeText(SignedDecimal(obj.val))
      [] obj.kind = "Real" -> SomeText(RealText(obj.val))
      [] obj.kind = "Boolean" -> SomeText(BoolText(obj.val))
      [] OTHER -> NoText

\* BTreeMap::insert
MapInsert(m, k, v) == [x \in (DOMAIN m) \cup {k} |-> IF x = k THEN v ELSE m[x]]
EmptyMap == [x \in {} |-> <<>>]

RECURSIVE InsertEntries(_, _, _)
\* The loop `for (k, v) in dict`: entries are visited in the dictionary's order.
InsertEntries(metadata, dict, i) ==
    IF i > Len(dict) THEN metadata
    ELSE LET key == FromUtf8Lossy(dict[i].key)
             val == pdf_object_to_string(dict[i].value)
         IN  InsertEntries(IF val.some THEN MapInsert(metadata, key, val.text) ELSE metadata,
                           dict, i + 1)

\* A page tree node: a leaf (Type Page) or an inner node (Type Pages) with kids.
Page == [type |-> "Page", kids |-> <<>>]
Pages(kids) == [type |-> "Pages", kids |-> kids]

RECURSIVE PageIter(_, _)
RECURSIVE KidsIter(_, _, _)
\* The traversal behind Document::get_pages: the leaves under a node, in order,
\* each named by the kid indexes that lead to it.
PageIter(node, at) ==
    IF node.type = "Page" THEN <<at>> ELSE KidsIter(node.kids, 1, at)

KidsIter(kids, i, at) ==
    IF i > Len(kids) THEN <<>>
    ELSE PageIter(kids[i], Append(at, i)) \o KidsIter(kids, i + 1, at)

\* Document::get_pages: page number (from 1) -> page object.
get_pages(doc) == PageIter(doc.root, <<>>)

\* u32::try_from(usize) succeeds below 2^32.
FitsU32(n) == n \div 65536 < 65536

\* Document::load: the parse fails, or it yields the document.
ParseFails == [ok |-> FALSE, doc |-> <<>>]
Parsed(doc) == [ok |-> TRUE, doc |-> doc]

\* The metadata info builds from a loaded document.
InfoMetadata(doc) ==
    IF doc.info.kind = "Absent" THEN EmptyMap
    ELSE IF ~IsReference(doc.info) THEN EmptyMap
    ELSE IF doc.info.val \notin DOMAIN doc.objects THEN EmptyMap
    ELSE IF ~IsDict(doc.objects[doc.info.val]) THEN EmptyMap
    ELSE InsertEntries(EmptyMap, doc.objects[doc.info.val].val, 1)

\* info as it would be if it loaded the file without checking that it exists.
info_NoValidate(path, fs, loaded) ==
    LET load == <<Event("load", path, loaded)>>
    IN  IF ~loaded.ok THEN Ret(PdfParse(path), load)
        ELSE Ret(Ok([pages |-> Len(get_pages(loaded.doc)),
                     metadata |-> InfoMetadata(loaded.doc)]), load)

\* info as it would be if it counted the kids of the page tree's root.
info_CountsRootKids(path, fs, loaded) ==
    LET v == validate_input_file(path, fs)
        load == <<Event("load", path, loaded)>>
    IN  IF ~IsOk(v.res) THEN v
        ELSE IF ~loaded.ok THEN Ret(PdfParse(path), v.trace \o load)
        ELSE Ret(Ok([pages |-> Len(loaded.doc.root.kids),
                     metadata |-> InfoMetadata(loaded.doc)]), v.trace \o load)

info(path, fs, loaded) ==
    LET v == validate_input_file(path, fs)
        load == <<Event("load", path, loaded)>>
    IN  IF ~IsOk(v.res) THEN v
        ELSE IF ~loaded.ok THEN Ret(PdfParse(path), v.trace \o load)
        ELSE LET doc == loaded.doc
                 n == Len(get_pages(doc))
                 metadata == InfoMetadata(doc)
             IN  IF ~FitsU32(n)
                 THEN Ret(InvalidArgument("page count overflow"), v.trace \o load)
                 ELSE Ret(Ok([pages |-> n, metadata |-> metadata]), v.trace \o load)

----------------------------------------------------------------------------
(* The command line: rotate (pdfcli main.rs) *)

\* enum RotateDegrees: the values clap accepts for --degrees.
RotateDegrees == {"D90", "D180", "D270"}

as_u16(degrees) ==
    CASE degrees = "D90" -> 90
      [] degrees = "D180" -> 180
      [] degrees = "D270" -> 270

\* An anyhow error: the context it was given, if any, and what caused it.
Message(msg) == [kind |-> "Message", msg |-> msg]
CliError(context, cause) == [kind |-> "CliError", context |-> context, cause |-> cause]

\* char::is_whitespace, for ASCII.
IsWhitespace(c) == c \in {9, 10, 11, 12, 13, 32}

RECURSIVE TrimStart(_)
TrimStart(text) ==
    IF text # <<>> /\ IsWhitespace(Head(text)) THEN TrimStart(Tail(text)) ELSE text

RECURSIVE TrimEnd(_)
TrimEnd(text) ==
    IF text # <<>> /\ IsWhitespace(text[Len(text)])
    THEN TrimEnd(SubSeq(text, 1, Len(text) - 1))
    ELSE text

\* str::trim
trim(text) == TrimEnd(TrimStart(text))

\* str::split_once('-'): the text before and after the first '-', if there is one.
split_once(text) ==
    LET at == {i \in DOMAIN text : text[i] = 45}
    IN  IF at = {} THEN [some |-> FALSE, before |-> <<>>, after |-> <<>>]
        ELSE LET i == CHOOSE k \in at : \A j \in at : k <= j
             IN  [some |-> TRUE, before |-> SubSeq(text, 1, i - 1),
                  after |-> SubSeq(text, i + 1, Len(text))]

RECURSIVE StripZeros(_)
StripZeros(digits) ==
    IF digits # <<>> /\ Head(digits) = 48 THEN StripZeros(Tail(digits)) ELSE digits

\* The digits of u32::MAX, 4294967295.
U32MaxDigits == <<52, 50, 57, 52, 57, 54, 55, 50, 57, 53>>

\* The number the digits denote is above u32::MAX.
Overflows(digits) ==
    LET d == StripZeros(digits)
    IN  \/ Len(d) > Len(U32MaxDigits)
        \/ /\ Len(d) = Len(U32MaxDigits)
           /\ \E i \in DOMAIN d :
                 /\ d[i] > U32MaxDigits[i]
                 /\ \A j \in 1..(i - 1) : d[j] = U32MaxDigits[j]

RECURSIVE DigitsValue(_)
DigitsValue(digits) ==
    IF digits = <<>> THEN 0
    ELSE 10 * DigitsValue(SubSeq(digits, 1, Len(digits) - 1)) + (digits[Len(digits)] - 48)

\* str::parse::<u32>: an optional '+', then one or more ASCII digits whose
\* value fits a u32; anything else is an error.
ParseU32(text) ==
    LET digits == IF text # <<>> /\ Head(text) = 43 THEN Tail(text) ELSE text
    IN  IF \/ digits = <<>>
           \/ \E i \in DOMAIN digits : digits[i] < 48 \/ digits[i] > 57
           \/ Overflows(digits)
        THEN [ok |-> FALSE, value |-> 0]
        ELSE [ok |-> TRUE, value |-> DigitsValue(digits)]

ParseError(msg) == [ok |-> FALSE, sel |-> NoSelection, err |-> msg]

\* parse_page_selection as it would be without the check that start <= end.
parse_page_selection_NoOrderCheck(s) ==
    LET parts == split_once(trim(s))
        start == ParseU32(trim(parts.before))
        end == ParseU32(trim(parts.after))
    IN  IF ~parts.some THEN ParseError(Message("expected format <start>-<end> (e.g. 1-3)"))
        ELSE IF ~start.ok THEN ParseError(Message("parsing start page"))
        ELSE IF ~end.ok THEN ParseError(Message("parsing end page"))
        ELSE IF start.value = 0 \/ end.value = 0
             THEN ParseError(Message("pages are 1-based"))
        ELSE [ok |-> TRUE, sel |-> Range(start.value, end.value), err |-> Message("")]

parse_page_selection(s) ==
    LET parts == split_once(trim(s))
        start == ParseU32(trim(parts.before))
        end == ParseU32(trim(parts.after))
    IN  IF ~parts.some THEN ParseError(Message("expected format <start>-<end> (e.g. 1-3)"))
        ELSE IF ~start.ok THEN ParseError(Message("parsing start page"))
        ELSE IF ~end.ok THEN ParseError(Message("parsing end page"))
        ELSE IF start.value = 0 \/ end.value = 0
             THEN ParseError(Message("pages are 1-based"))
        ELSE IF start.value > end.value
             THEN ParseError(Message("page range start must be <= end"))
        ELSE [ok |-> TRUE, sel |-> Range(start.value, end.value), err |-> Message("")]

\* ensure_can_write_file.  No output path of the model has a parent directory,
\* so no directory is created.
ensure_can_write_file(path, force, fs) ==
    Ret(IF path \in fs /\ ~force
        THEN CliError(None, Message("output already exists"))
        ELSE Ok(Unit),
        <<Event("exists", path, path \in fs)>>)

cmd_rotate(input, output, force, degrees, pages, fs, env, path, proc) ==
    LET w == ensure_can_write_file(output, force, fs)
        parsed == parse_page_selection(pages.text)
    IN  IF ~IsOk(w.res) THEN w
        ELSE IF pages.some /\ ~parsed.ok
             THEN Ret(CliError("parsing --pages", parsed.err), w.trace)
        ELSE LET sel == IF pages.some THEN parsed.sel ELSE NoSelection
                 r == rotate(input, output, as_u16(degrees), sel, fs, env, path, proc)
             IN  Ret(IF IsOk(r.res) THEN Ok(Unit) ELSE CliError("rotating", r.res),
                     w.trace \o r.trace)

----------------------------------------------------------------------------
(* The inputs the calls are made with *)

SeqsUpTo(S, n) == UNION {[1..k -> S] : k \in 0..n}

InputLists == SeqsUpTo(InputPaths, MaxInputs)

\* out_dir "o"; patterns "p%d", "%d", "d%", "p", "%" and the empty one.
OutDir == <<111>>
Patterns ==
    {NoText} \cup {SomeText(t) : t \in {<<112, 37, 100>>, <<37, 100>>, <<100, 37>>,
                                        <<112>>, <<37>>, <<>>}}

Degrees == {0, 45, 90, 180, 270, 360}

Selections == {NoSelection, All} \cup {Range(s, e) : s, e \in 0..MaxPage}

\* What a spawned tool may do: exit with 0 or 1 or die by a signal, having
\* written nothing, "a" and an invalid byte, or a two-byte character.
Statuses == {Exited(0), Exited(1), Signaled}
Outputs == {<<>>, <<97, 255>>, <<195, 169>>}
Procs == {SpawnError} \cup {Ran(st, o, e) : st \in Statuses, o \in Outputs, e \in Outputs}

\* Info dictionaries: keys "T" and two that are not UTF-8; values of the five
\* kinds info keeps and of two it drops.
InfoKeys == {<<84>>, <<255>>, <<254>>}
InfoValues ==
    {Obj("String", <<97, 255>>), Obj("Name", <<78>>), Obj("Integer", -7),
     Obj("Real", 25), Obj("Boolean", TRUE), Obj("Array", <<>>), Obj("Null", <<>>)}
InfoEntries == [key : InfoKeys, value : InfoValues]
Dicts ==
    {d \in SeqsUpTo(InfoEntries, MaxEntries) :
        \A i, j \in DOMAIN d : i # j => d[i].key # d[j].key}

Absent == Obj("Absent", <<>>)
NoObjects == <<>>

\* Page trees of two levels under the root.
SubTrees == {Page} \cup {Pages(k) : k \in SeqsUpTo({Page}, MaxKids)}
PageTrees == {Pages(k) : k \in SeqsUpTo(SubTrees, MaxKids)}
OnePage == Pages(<<Page>>)

\* The documents: every Info dictionary behind the trailer's reference; a
\* trailer without Info, with a direct dictionary, with a reference to no
\* object and to an array; and every page tree.
Docs ==
    {[info |-> Obj("Reference", 1), objects |-> <<Obj("Dictionary", d)>>, root |-> OnePage] :
        d \in Dicts}
    \cup {[info |-> i, objects |-> <<Obj("Array", <<>>)>>, root |-> OnePage] :
            i \in {Absent, Obj("Reference", 1), Obj("Reference", 2),
                   Obj("Dictionary", <<[key |-> <<84>>, value |-> Obj("Boolean", TRUE)]>>)}}
    \cup {[info |-> Absent, objects |-> NoObjects, root |-> t] : t \in PageTrees}

Loads == {ParseFails} \cup {Parsed(d) : d \in Docs}

\* What --pages is given on the command line: nothing; "<s>-<e>" for the
\* numbers up to one past MaxPage; and " 1 - 1 ", "+1-1", "01-1", "1", "1-",
\* "-1", "1--1", "a-1", "4294967296-1" and the empty text.
PageTexts ==
    {NoText}
    \cup {SomeText(Decimal(s) \o <<45>> \o Decimal(e)) : s, e \in 0..(MaxPage + 1)}
    \cup {SomeText(t) : t \in {<<32, 49, 32, 45, 32, 49, 32>>, <<43, 49, 45, 49>>,
                                <<48, 49, 45, 49>>, <<49>>, <<49, 45>>, <<45, 49>>,
                                <<49, 45, 45, 49>>, <<97, 45, 49>>,
                                <<52, 50, 57, 52, 57, 54, 55, 50, 57, 54, 45, 49>>, <<>>}}

\* The output paths of the command line: one that names no file, and one
\* that may exist.
CliOutputs == {OutputPath, "b.pdf"}

\* What the tool may do under the command line: fail to start, exit with 0,
\* exit with 1.
CliProcs == {SpawnError, Ran(Exited(0), <<>>, <<>>), Ran(Exited(1), <<>>, <<97, 255>>)}

----------------------------------------------------------------------------
(* The state machine *)

NoCall == [op |-> "none"]
NoResult == [kind |-> "none"]

Configured(t, env, path) ==
    \/ env[env_override(t)] # Unset
    \/ \E i \in DOMAIN default_exe_names(t) : default_exe_names(t)[i] \in path

Init ==
    /\ files \in SUBSET AllPaths
    /\ environ \in [EnvVars -> {Unset} \cup OverridePaths]
    /\ onPath \in SUBSET ExeNames
    /\ Cardinality({t \in Tools : Configured(t, environ, onPath)}) <= MaxConfigured
    /\ pc = "idle"
    /\ call = NoCall
    /\ result = NoResult
    /\ trace = <<>>

Return(c, r) ==
    /\ pc' = "done"
    /\ call' = c
    /\ result' = r.res
    /\ trace' = r.trace
    /\ UNCHANGED <<files, environ, onPath>>

Merge ==
    /\ pc = "idle"
    /\ \E inputs \in InputLists, proc \in Procs :
          Return([op |-> "merge", inputs |-> inputs, output |-> OutputPath],
                 merge(inputs, OutputPath, files, environ, onPath, proc))

SplitPages ==
    /\ pc = "idle"
    /\ \E input \in InputPaths, pattern \in Patterns, proc \in Procs :
          Return([op |-> "split_pages", input |-> input, out_dir |-> OutDir,
                  pattern |-> pattern],
                 split_pages(input, OutDir, pattern, files, environ, onPath, proc))

ExtractText ==
    /\ pc = "idle"
    /\ \E input \in InputPaths, output \in {None, TextOutputPath}, proc \in Procs :
          Return([op |-> "extract_text", input |-> input, output |-> output],
                 extract_text(input, output, files, environ, onPath, proc))

Rotate ==
    /\ pc = "idle"
    /\ \E input \in InputPaths, degrees \in Degrees, pages \in Selections, proc \in Procs :
          Return([op |-> "rotate", input |-> input, output |-> OutputPath,
                  degrees |-> degrees, pages |-> pages],
                 rotate(input, OutputPath, degrees, pages, files, environ, onPath, proc))

Compress ==
    /\ pc = "idle"
    /\ \E input \in InputPaths, output \in {OutputPath, NonUnicodeOutputPath},
          preset \in CompressPresets, proc \in Procs :
          Return([op |-> "compress", input |-> input, output |-> output,
                  preset |-> preset],
                 compress(input, output, preset, files, environ, onPath, proc))

Info ==
    /\ pc = "idle"
    /\ \E path \in InputPaths, loaded \in Loads :
          Return([op |-> "info", path |-> path], info(path, files, loaded))

CmdRotate ==
    /\ pc = "idle"
    /\ \E input \in InputPaths, output \in CliOutputs, force \in BOOLEAN,
          degrees \in RotateDegrees, pages \in PageTexts, proc \in CliProcs :
          Return([op |-> "cmd_rotate", input |-> input, output |-> output,
                  force |-> force, degrees |-> degrees, pages |-> pages],
                 cmd_rotate(input, output, force, degrees, pages,
                            files, environ, onPath, proc))

Next == Merge \/ SplitPages \/ ExtractText \/ Rotate \/ Compress \/ Info \/ CmdRotate

Spec == Init /\ [][Next]_vars

----------------------------------------------------------------------------
(* Reading a finished call *)

Done == pc = "done"

ToolOps == {"merge", "split_pages", "extract_text", "rotate", "compress"}

\* The tool each operation delegates to.
ToolOf(op) ==
    CASE op \in {"merge", "split_pages", "rotate"} -> "Qpdf"
      [] op = "extract_text" -> "Pdftotext"
      [] op = "compress" -> "Ghostscript"

\* The input files an operation requires, in the order it was given them.
RequiredInputs == IF call.op = "merge" THEN call.inputs ELSE <<call.input>>

MissingInputs == {i \in DOMAIN RequiredInputs : RequiredInputs[i] \notin files}

Least(S) == CHOOSE i \in S : \A j \in S : i <= j

\* The tool can be located in this environment.
Resolvable(t) ==
    IF environ[env_override(t)] # Unset
    THEN environ[env_override(t)] \in files
    ELSE \E i \in DOMAIN default_exe_names(t) : default_exe_names(t)[i] \in onPath

\* A default name of the tool resolves on the search path.
DefaultResolves(t) ==
    \E i \in DOMAIN default_exe_names(t) : default_exe_names(t)[i] \in onPath

Happened(ev) == {i \in DOMAIN trace : trace[i].ev = ev}
LookedUp == Happened("var_os") \cup Happened("which")
Spawned == Happened("spawn")

----------------------------------------------------------------------------
(* Claims *)

\* C1: a tool-delegated operation whose required input file does not exist
\* returns InputNotFound for the first such path, and its trace holds nothing
\* but existence checks of its inputs: no tool lookup, no spawn, whatever the
\* state of the tool.  In merge, every input has been checked before the
\* first step of locating the tool.
C1_InputCheckedBeforeTool ==
    (Done /\ call.op \in ToolOps) =>
        /\ MissingInputs # {} =>
              /\ result.kind = "InputNotFound"
              /\ result.path = RequiredInputs[Least(MissingInputs)]
              /\ LookedUp = {}
              /\ Spawned = {}
              /\ \A i \in DOMAIN trace :
                    /\ trace[i].ev = "exists"
                    /\ \E k \in DOMAIN RequiredInputs : trace[i].arg = RequiredInputs[k]
        /\ call.op = "merge" =>
              \A i \in LookedUp \cup Spawned :
                  \A k \in DOMAIN call.inputs :
                      \E j \in 1..(i - 1) :
                          /\ trace[j].ev = "exists"
                          /\ trace[j].arg = call.inputs[k]

\* C1's case: merge of an existing and a missing file where qpdf cannot be
\* located either; the missing file is what is reported.
C1_Witness ==
    /\ Done
    /\ call.op = "merge"
    /\ Len(call.inputs) = 2
    /\ call.inputs[1] \in files
    /\ call.inputs[2] \notin files
    /\ ~Resolvable("Qpdf")
    /\ result = InputNotFound(call.inputs[2])

\* C2: once find_tool has read a set override variable, no default name is
\* probed; an override naming an existing path is the program that is run,
\* verbatim, and one naming no file gives MissingTool with a hint that names
\* the variable and its value.
C2_OverrideNeverFallsBack ==
    (Done /\ call.op \in ToolOps) =>
        \A i \in Happened("var_os") :
            trace[i].ans # Unset =>
                /\ trace[i].arg = env_override(ToolOf(call.op))
                /\ trace[i].ans = environ[trace[i].arg]
                /\ Happened("which") = {}
                /\ IF trace[i].ans \in files
                   THEN /\ result.kind # "MissingTool"
                        /\ \A j \in Spawned : trace[j].arg.program = trace[i].ans
                   ELSE /\ result.kind = "MissingTool"
                        /\ result.tool = name(ToolOf(call.op))
                        /\ result.hint[1] = trace[i].arg
                        /\ result.hint[3] = trace[i].ans
                        /\ Spawned = {}

\* C2's case: the override names no file while a default name resolves on the
\* search path, and the call ends in MissingTool.
C2_Witness ==
    /\ Done
    /\ call.op = "compress"
    /\ environ["PDFCLI_GS"] # Unset
    /\ environ["PDFCLI_GS"] \notin files
    /\ "gs" \in onPath
    /\ result.kind = "MissingTool"

\* C4: merge of an empty input list returns InvalidArgument having read
\* nothing of the environment and spawned nothing.
C4_MergeEmptyIsInvalidArgument ==
    (Done /\ call.op = "merge" /\ call.inputs = <<>>) =>
        /\ result.kind = "InvalidArgument"
        /\ trace = <<>>

\* C4's case: merge of no inputs where qpdf cannot be located.
C4_Witness ==
    /\ Done
    /\ call.op = "merge"
    /\ call.inputs = <<>>
    /\ ~Resolvable("Qpdf")
    /\ result.kind = "InvalidArgument"

----------------------------------------------------------------------------
(* Bytes and text *)

RECURSIVE Utf8(_)
\* The bytes of a text (str::as_bytes), for code points of the basic plane.
Utf8(text) ==
    IF text = <<>> THEN <<>>
    ELSE LET c == Head(text)
         IN  (IF c < 128 THEN <<c>>
              ELSE IF c < 2048 THEN <<192 + (c \div 64), 128 + (c % 64)>>
              ELSE <<224 + (c \div 4096), 128 + ((c \div 64) % 64), 128 + (c % 64)>>)
             \o Utf8(Tail(text))

RECURSIVE IsValidUtf8(_)
\* The bytes are well-formed UTF-8 (of one- and two-byte sequences, all that
\* the processes of the model write besides invalid bytes).
IsValidUtf8(bytes) ==
    IF bytes = <<>> THEN TRUE
    ELSE IF Head(bytes) < 128 THEN IsValidUtf8(Tail(bytes))
    ELSE /\ Head(bytes) >= 194
         /\ Head(bytes) <= 223
         /\ Len(bytes) >= 2
         /\ IsContinuation(bytes[2])
         /\ IsValidUtf8(Tail(Tail(bytes)))

ExitedZero(status) == ~status.signaled /\ status.code = 0

----------------------------------------------------------------------------
(* Claims on the process runner *)

\* C3, as claimed: a spawned process that exits with 0 yields success; any
\* other end yields ToolFailed carrying the tool's name, the exit code (-1
\* when there is none) and, as stdout and stderr, exactly the bytes the
\* process wrote.
C3_Original ==
    (Done /\ call.op \in ToolOps) =>
        \A i \in Spawned :
            LET p == trace[i].ans
            IN  p.spawned =>
                    IF ExitedZero(p.status) THEN IsOk(result)
                    ELSE /\ result.kind = "ToolFailed"
                         /\ result.tool = name(ToolOf(call.op))
                         /\ result.status = (IF p.status.signaled THEN -1 ELSE p.status.code)
                         /\ Utf8(result.stdout) = p.stdout
                         /\ Utf8(result.stderr) = p.stderr

\* C3, amended: as claimed, except that the stdout and stderr fields are the
\* lossy UTF-8 decoding of what the process wrote (each invalid byte becomes
\* U+FFFD); they equal the written bytes exactly when those are valid UTF-8.
C3_ToolFailedCarriesDecodedOutput ==
    (Done /\ call.op \in ToolOps) =>
        \A i \in Spawned :
            LET p == trace[i].ans
            IN  p.spawned =>
                    IF ExitedZero(p.status) THEN IsOk(result)
                    ELSE /\ result.kind = "ToolFailed"
                         /\ result.tool = name(ToolOf(call.op))
                         /\ result.status = (IF p.status.signaled THEN -1 ELSE p.status.code)
                         /\ result.stdout = FromUtf8Lossy(p.stdout)
                         /\ result.stderr = FromUtf8Lossy(p.stderr)
                         /\ IsValidUtf8(p.stdout) => Utf8(result.stdout) = p.stdout
                         /\ IsValidUtf8(p.stderr) => Utf8(result.stderr) = p.stderr

\* C3's case: the tool was ended by a signal after it wrote "a" and an
\* invalid byte to stdout and a two-byte character to stderr.
C3_Witness ==
    /\ Done
    /\ result.kind = "ToolFailed"
    /\ result.status = -1
    /\ result.stdout = <<97, 65533>>
    /\ result.stderr = <<233>>
    /\ \E i \in Spawned :
          /\ trace[i].ans.status.signaled
          /\ trace[i].ans.stdout = <<97, 255>>
          /\ trace[i].ans.stderr = <<195, 169>>

\* C5, as claimed: rotate of an existing file with degrees outside
\* {0, 90, 180, 270} fails with InvalidArgument and spawns nothing, in every
\* environment; with degrees inside the set it never fails with InvalidArgument.
C5_Claim ==
    (Done /\ call.op = "rotate" /\ call.input \in files) =>
        IF call.degrees \notin {0, 90, 180, 270}
        THEN result.kind = "InvalidArgument" /\ Spawned = {}
        ELSE result.kind # "InvalidArgument"

\* C6, as claimed: split_pages of an existing file with a supplied pattern
\* that lacks "%d" fails with InvalidArgument and spawns nothing, in every
\* environment.
C6_Claim ==
    (Done /\ call.op = "split_pages" /\ call.input \in files
          /\ call.pattern.some /\ ~ContainsPercentD(call.pattern.text)) =>
        result.kind = "InvalidArgument" /\ Spawned = {}

\* C7, as claimed: extract_text runs the text tool with [input, X], X being
\* "-" without an output path and the output path otherwise; after exit 0 it
\* returns exactly the bytes the process wrote to stdout when no output path
\* was given, and the empty text when one was.
C7_Original ==
    (Done /\ call.op = "extract_text") =>
        \A i \in Spawned :
            LET p == trace[i].ans
            IN  /\ trace[i].arg.args =
                      <<call.input, IF call.output = None THEN "-" ELSE call.output>>
                /\ (p.spawned /\ ExitedZero(p.status)) =>
                      /\ IsOk(result)
                      /\ IF call.output = None
                         THEN Utf8(result.value) = p.stdout
                         ELSE result.value = <<>>

\* C7, amended: as claimed, except that without an output path the value
\* returned is the lossy UTF-8 decoding of the captured stdout (each invalid
\* byte becomes U+FFFD), which equals the captured bytes exactly when they
\* are valid UTF-8.
C7_ExtractTextReturnsDecodedStdout ==
    (Done /\ call.op = "extract_text") =>
        \A i \in Spawned :
            LET p == trace[i].ans
            IN  /\ trace[i].arg.args =
                      <<call.input, IF call.output = None THEN "-" ELSE call.output>>
                /\ (p.spawned /\ ExitedZero(p.status)) =>
                      /\ IsOk(result)
                      /\ IF call.output = None
                         THEN /\ result.value = FromUtf8Lossy(p.stdout)
                              /\ IsValidUtf8(p.stdout) => Utf8(result.value) = p.stdout
                         ELSE result.value = <<>>

\* C7's case: pdftotext wrote "a" and an invalid byte and exited with 0; with
\* no output path the call returns "a" followed by U+FFFD.
C7_Witness ==
    /\ Done
    /\ call.op = "extract_text"
    /\ call.output = None
    /\ result = Ok(<<97, 65533>>)
    /\ \E i \in Spawned :
          /\ trace[i].arg.args = <<call.input, "-">>
          /\ ExitedZero(trace[i].ans.status)
          /\ trace[i].ans.stdout = <<97, 255>>

----------------------------------------------------------------------------
(* Claims on info *)

Loaded == Happened("load")

\* The Info dictionary info reads: the one the trailer's Info reference
\* resolves to; no entries when there is none.
InfoDictOf(doc) ==
    IF /\ doc.info.kind = "Reference"
       /\ doc.info.val \in DOMAIN doc.objects
       /\ doc.objects[doc.info.val].kind = "Dictionary"
    THEN doc.objects[doc.info.val].val
    ELSE <<>>

KeptKinds == {"String", "Name", "Integer", "Real", "Boolean"}

\* The coercion table of the specification: string and name as lossy UTF-8,
\* integer and real as decimal text, boolean as "true" or "false".
CoercionTable(obj) ==
    IF obj.kind \in {"String", "Name"} THEN FromUtf8Lossy(obj.val)
    ELSE IF obj.kind = "Integer"
         THEN (IF obj.val < 0 THEN <<45>> \o Decimal(0 - obj.val) ELSE Decimal(obj.val))
    ELSE IF obj.kind = "Real"
         THEN (IF obj.val < 0 THEN <<45>> ELSE <<>>)
              \o Decimal((IF obj.val < 0 THEN 0 - obj.val ELSE obj.val) \div 10)
              \o (IF obj.val % 10 = 0 THEN <<>>
                  ELSE <<46, 48 + ((IF obj.val < 0 THEN 0 - obj.val ELSE obj.val) % 10)>>)
    ELSE IF obj.val THEN <<116, 114, 117, 101>> ELSE <<102, 97, 108, 115, 101>>

\* The entries of a dictionary whose value is of a kept kind.
Kept(dict) == {i \in DOMAIN dict : dict[i].value.kind \in KeptKinds}

Greatest(S) == CHOOSE i \in S : \A j \in S : j <= i

\* C8: info of a path that does not exist returns InputNotFound without
\* loading the file; info of an existing path whose parse fails returns
\* PdfParse with that path; info never looks a tool up and never spawns.
C8_InfoErrors ==
    (Done /\ call.op = "info") =>
        /\ LookedUp = {}
        /\ Spawned = {}
        /\ IF call.path \notin files
           THEN /\ result.kind = "InputNotFound"
                /\ result.path = call.path
                /\ Loaded = {}
           ELSE /\ Loaded # {}
                /\ \A i \in Loaded :
                      /\ trace[i].arg = call.path
                      /\ ~trace[i].ans.ok =>
                            (result.kind = "PdfParse" /\ result.path = call.path)

\* C8's case: info of a path that does not exist.
C8_Witness ==
    /\ Done
    /\ call.op = "info"
    /\ call.path \notin files
    /\ result = InputNotFound(call.path)
    /\ trace = <<Event("exists", call.path, FALSE)>>

\* C9, as claimed: the metadata of a parsed document holds exactly the entries
\* of the Info dictionary whose value is of a kept kind, each coerced by the
\* table: as many entries, and the same pairs of key and text.  Without an
\* Info dictionary the metadata is empty.
C9_Original ==
    (Done /\ call.op = "info") =>
        \A i \in Loaded :
            trace[i].ans.ok =>
                LET dict == InfoDictOf(trace[i].ans.doc)
                IN  /\ IsOk(result)
                    /\ Cardinality(DOMAIN result.value.metadata) = Cardinality(Kept(dict))
                    /\ {<<k, result.value.metadata[k]>> : k \in DOMAIN result.value.metadata}
                       = {<<FromUtf8Lossy(dict[e].key), CoercionTable(dict[e].value)>> :
                              e \in Kept(dict)}

\* C9, amended: the keys of the metadata are the lossily decoded keys of the
\* Info dictionary's entries of a kept kind, and each key carries the coerced
\* value of the last such entry, in the dictionary's order, whose key decodes
\* to it; entries of other kinds are omitted; when no two of those keys decode
\* to the same text the metadata holds exactly those entries.  Without an Info
\* dictionary the metadata is empty.  info succeeds in every case.
C9_MetadataIsCoercedInfoEntries ==
    (Done /\ call.op = "info") =>
        \A i \in Loaded :
            trace[i].ans.ok =>
                LET dict == InfoDictOf(trace[i].ans.doc)
                    meta == result.value.metadata
                    Key(e) == FromUtf8Lossy(dict[e].key)
                IN  /\ IsOk(result)
                    /\ DOMAIN meta = {Key(e) : e \in Kept(dict)}
                    /\ \A k \in DOMAIN meta :
                          meta[k] = CoercionTable(
                              dict[Greatest({e \in Kept(dict) : Key(e) = k})].value)
                    /\ (\A e, f \in Kept(dict) : e # f => Key(e) # Key(f)) =>
                          Cardinality(DOMAIN meta) = Cardinality(Kept(dict))

\* C9's case: an Info dictionary with an integer and then a boolean under
\* two keys that are not UTF-8 and decode to the same text, U+FFFD: the
\* metadata holds one entry, "true".
C9_Witness ==
    /\ Done
    /\ call.op = "info"
    /\ IsOk(result)
    /\ DOMAIN result.value.metadata = {<<65533>>}
    /\ result.value.metadata[<<65533>>] = <<116, 114, 117, 101>>
    /\ \E i \in Loaded :
          /\ trace[i].ans.ok
          /\ InfoDictOf(trace[i].ans.doc) =
                <<[key |-> <<255>>, value |-> Obj("Integer", -7)],
                  [key |-> <<254>>, value |-> Obj("Boolean", TRUE)]>>

\* The leaves of a page tree of two levels, each named by its place.
LeafPlaces(root) ==
    {<<i>> : i \in {k \in DOMAIN root.kids : root.kids[k].type = "Page"}}
    \cup UNION {{<<i, j>> : j \in {k \in DOMAIN root.kids[i].kids :
                                      root.kids[i].kids[k].type = "Page"}} :
                   i \in DOMAIN root.kids}

----------------------------------------------------------------------------
(* Claims on the tool locator's default names *)

\* The package manager commands a hint names for a tool, by platform.
MacCommands(t) ==
    IF t = "Ghostscript" THEN {<<"brew install ghostscript">>}
    ELSE {<<"brew install ", name(t)>>}
UbuntuCommands ==
    {"sudo apt-get update && sudo apt-get install -y qpdf",
     "sudo apt-get update && sudo apt-get install -y poppler-utils",
     "sudo apt-get update && sudo apt-get install -y ghostscript"}
WindowsCommands ==
    {"choco install qpdf OR scoop install qpdf",
     "choco install poppler OR scoop install poppler",
     "choco install ghostscript OR scoop install ghostscript"}

\* The parts of `part` occur in the hint, one after the other.
HintHas(hint, part) ==
    \E k \in 0..(Len(hint) - Len(part)) : \A j \in DOMAIN part : hint[k + j] = part[j]

\* C11: when find_tool has read an unset override variable, the probes of the
\* search path follow at once and run through the tool's default names in
\* their listed order, each answered by the search path; they stop at the
\* first name that resolves, which is the program that is run; when no name
\* resolves every name has been probed and the result is MissingTool of the
\* tool with a hint that holds an install command for macOS, for
\* Ubuntu/Debian and for Windows, and nothing is spawned.
C11_DefaultsProbedInOrder ==
    (Done /\ call.op \in ToolOps) =>
        \A i \in Happened("var_os") :
            trace[i].ans = Unset =>
                LET t == ToolOf(call.op)
                    names == default_exe_names(t)
                    hits == {k \in DOMAIN names : names[k] \in onPath}
                    n == Cardinality(Happened("which"))
                IN  /\ Happened("which") = (i + 1)..(i + n)
                    /\ n <= Len(names)
                    /\ \A k \in 1..n :
                          /\ trace[i + k].arg = names[k]
                          /\ trace[i + k].ans = (names[k] \in onPath)
                    /\ IF hits # {}
                       THEN /\ n = Least(hits)
                            /\ result.kind # "MissingTool"
                            /\ \A j \in Spawned :
                                  trace[j].arg.program = Which(names[Least(hits)])
                       ELSE /\ n = Len(names)
                            /\ result.kind = "MissingTool"
                            /\ result.tool = name(t)
                            /\ \E c \in MacCommands(t) : HintHas(result.hint, c)
                            /\ \E c \in UbuntuCommands :
                                  HintHas(result.hint, <<"\n  Ubuntu/Debian: ", c>>)
                            /\ \E c \in WindowsCommands :
                                  HintHas(result.hint, <<"\n  Windows: ", c>>)
                            /\ Spawned = {}

\* C11's case: no override for Ghostscript, "gs" does not resolve while
\* "gswin64c" and "gswin32c" both do: the probes are "gs" and "gswin64c" and
\* the program that is run is the one "gswin64c" resolves to.
C11_Witness ==
    /\ Done
    /\ call.op = "compress"
    /\ environ["PDFCLI_GS"] = Unset
    /\ "gs" \notin onPath
    /\ {"gswin64c", "gswin32c"} \subseteq onPath
    /\ \E j \in Spawned : trace[j].arg.program = "/usr/bin/gswin64c"
    /\ \E i \in DOMAIN trace :
          /\ trace[i] = Event("which", "gs", FALSE)
          /\ trace[i + 1] = Event("which", "gswin64c", TRUE)

----------------------------------------------------------------------------
(* Claims on the argument lists *)

\* "+0", "+90", "+180", "+270"
PlusDegrees(d) ==
    CASE d = 0 -> <<43, 48>>
      [] d = 90 -> <<43, 57, 48>>
      [] d = 180 -> <<43, 49, 56, 48>>
      [] d = 270 -> <<43, 50, 55, 48>>

\* "<start>-<end>"
RangeText(sel) == Decimal(sel.start) \o <<45>> \o Decimal(sel.end)

\* C12: every rotate call that spawns qpdf hands it exactly the arguments
\* "--rotate", R, the input and the output, where R is "+<degrees>" when the
\* page selection is absent or All and "+<degrees>:<start>-<end>" when it is
\* a Range; the tool-argument rendering of a Range is "<start>-<end>" and
\* that of All is absent.  The call spawns exactly when its input exists,
\* qpdf is located and the degrees are 0, 90, 180 or 270.
C12_RotateArguments ==
    (Done /\ call.op = "rotate") =>
        /\ (Spawned # {}) <=>
              (call.input \in files /\ Resolvable("Qpdf")
                  /\ call.degrees \in {0, 90, 180, 270})
        /\ \A i \in Spawned :
              /\ Len(trace[i].arg.args) = 4
              /\ trace[i].arg.args[1] = "--rotate"
              /\ trace[i].arg.args[2] =
                    (IF call.pages.sel = "Range"
                     THEN PlusDegrees(call.degrees) \o <<58>> \o RangeText(call.pages)
                     ELSE PlusDegrees(call.degrees))
              /\ trace[i].arg.args[3] = call.input
              /\ trace[i].arg.args[4] = call.output
        /\ call.pages.sel = "Range" => to_qpdf_arg(call.pages) = RangeText(call.pages)
        /\ call.pages.sel = "All" => to_qpdf_arg(call.pages) = <<>>

\* C12's case: rotate by 270 degrees of the pages 1-1 spawns qpdf with
\* "+270:1-1".
C12_Witness ==
    /\ Done
    /\ call.op = "rotate"
    /\ call.degrees = 270
    /\ call.pages = Range(1, 1)
    /\ \E i \in Spawned :
          trace[i].arg.args =
              <<"--rotate", <<43, 50, 55, 48, 58, 49, 45, 49>>, call.input, call.output>>

\* The -dPDFSETTINGS argument of each preset.
SettingsArgument(preset) ==
    CASE preset = "Screen" -> <<"-dPDFSETTINGS=", "/screen">>
      [] preset = "Ebook" -> <<"-dPDFSETTINGS=", "/ebook">>
      [] preset = "Printer" -> <<"-dPDFSETTINGS=", "/printer">>
      [] preset = "Prepress" -> <<"-dPDFSETTINGS=", "/prepress">>
      [] preset = "Default" -> <<"-dPDFSETTINGS=", "/default">>

\* C13, as claimed: every compress call that spawns Ghostscript hands it
\* exactly -sDEVICE=pdfwrite, -dCompatibilityLevel=1.4, -dPDFSETTINGS= with
\* the preset's setting, -dNOPAUSE, -dBATCH, -dSAFER, -sOutputFile= with the
\* output path, and the input path, in that order.
C13_Claim ==
    (Done /\ call.op = "compress") =>
        \A i \in Spawned :
            trace[i].arg.args =
                <<"-sDEVICE=pdfwrite", "-dCompatibilityLevel=1.4",
                  SettingsArgument(call.preset), "-dNOPAUSE", "-dBATCH", "-dSAFER",
                  <<"-sOutputFile=", call.output>>, call.input>>

\* C14: every merge call that spawns qpdf was given a non-empty list of
\* existing inputs and hands qpdf exactly "--empty", "--pages", the inputs in
\* the order and as many times as the caller gave them, "--", and the output
\* as the last argument.
C14_MergeArguments ==
    (Done /\ call.op = "merge") =>
        /\ (Spawned # {}) <=>
              (call.inputs # <<>> /\ MissingInputs = {} /\ Resolvable("Qpdf"))
        /\ \A i \in Spawned :
              LET args == trace[i].arg.args
                  n == Len(call.inputs)
              IN  /\ Len(args) = n + 4
                  /\ args[1] = "--empty"
                  /\ args[2] = "--pages"
                  /\ \A k \in 1..n : args[2 + k] = call.inputs[k]
                  /\ args[n + 3] = "--"
                  /\ args[n + 4] = call.output

\* C14's case: merge of the same file twice spawns qpdf with the file named
\* twice.
C14_Witness ==
    /\ Done
    /\ call.op = "merge"
    /\ call.inputs = <<"b.pdf", "b.pdf">>
    /\ \E i \in Spawned :
          trace[i].arg.args = <<"--empty", "--pages", "b.pdf", "b.pdf", "--", "out.pdf">>

----------------------------------------------------------------------------
(* Claims on the course of one operation *)

\* The operation's own check of its arguments fails: before anything else in
\* merge, after the tool is located in rotate and split_pages.
EmptyMerge == call.op = "merge" /\ call.inputs = <<>>
BuildFails ==
    \/ call.op = "rotate" /\ call.degrees \notin {0, 90, 180, 270}
    \/ call.op = "split_pages" /\ call.pattern.some /\ ~ContainsPercentD(call.pattern.text)

\* The error of the first step that fails, the steps taken in the order
\* validate, locate, build, run; "Ok" when none fails.
FirstFailure ==
    IF EmptyMerge THEN "InvalidArgument"
    ELSE IF MissingInputs # {} THEN "InputNotFound"
    ELSE IF ~Resolvable(ToolOf(call.op)) THEN "MissingTool"
    ELSE IF BuildFails THEN "InvalidArgument"
    ELSE LET p == trace[Len(trace)].ans
         IN  IF ~p.spawned THEN "Io"
             ELSE IF ~ExitedZero(p.status) THEN "ToolFailed"
             ELSE "Ok"

\* C15: an operation spawns at most one process, and info none; the spawn is
\* the last thing the operation does, it happens exactly when validating,
\* locating and building all succeeded, and the operation returns what the
\* end of that process decides (success after exit 0, ToolFailed after any
\* other end, Io when the spawn failed), so nothing is run twice; the result is
\* the error of the first step that failed in validate, locate, build, run,
\* and nothing was read or spawned after that step.
C15_OneSpawnFirstError ==
    Done =>
        /\ Cardinality(Spawned) <= 1
        /\ call.op = "info" => Spawned = {}
        /\ call.op \in ToolOps =>
              /\ \A i \in Spawned : i = Len(trace)
              /\ (Spawned # {}) <=>
                    (~EmptyMerge /\ MissingInputs = {} /\ Resolvable(ToolOf(call.op))
                        /\ ~BuildFails)
              /\ result.kind = FirstFailure
              /\ result.kind = "InputNotFound" =>
                    /\ trace[Len(trace)] = Event("exists", result.path, FALSE)
                    /\ \A i \in 1..(Len(trace) - 1) :
                          trace[i].ev = "exists" /\ trace[i].ans
              /\ result.kind = "MissingTool" =>
                    /\ trace[Len(trace)].ev \in {"exists", "which"}
                    /\ ~trace[Len(trace)].ans

\* C15's case: the process of split_pages exited with 1; it is the only spawn,
\* the last event, and the call returned ToolFailed with that status.
C15_Witness ==
    /\ Done
    /\ call.op = "split_pages"
    /\ Cardinality(Spawned) = 1
    /\ trace[Len(trace)].ev = "spawn"
    /\ trace[Len(trace)].ans.status = Exited(1)
    /\ result.kind = "ToolFailed"
    /\ result.status = 1

----------------------------------------------------------------------------
(* Claims on the page range of rotate *)

\* The text is "+<degrees>", or "+<degrees>:<start>-<end>" for page numbers
\* with 1 <= start <= end.
WellFormedRotateArg(text) ==
    \E d \in {0, 90, 180, 270} :
        \/ text = PlusDegrees(d)
        \/ \E s, e \in 1..(MaxPage + 1) :
              /\ s <= e
              /\ text = PlusDegrees(d) \o <<58>> \o Decimal(s) \o <<45>> \o Decimal(e)

\* The command line's check of the output path lets the call go on.
OutputWritable == call.output \notin files \/ call.force

PagesRejected == result.kind = "CliError" /\ result.context = "parsing --pages"

\* C16, as claimed: whoever calls rotate, the argument it hands qpdf carries
\* no page range, or one with 1 <= start <= end.
C16_Original ==
    (Done /\ call.op \in {"rotate", "cmd_rotate"}) =>
        \A i \in Spawned : WellFormedRotateArg(trace[i].arg.args[2])

\* C16, amended: what holds is the claim for the calls the command line
\* makes.  Every rotate argument spawned under cmd_rotate carries no page
\* range or one with 1 <= start <= end; --pages "<s>-<e>" with s = 0, e = 0
\* or s > e, or without a '-', is refused with an error before rotate is
\* called (nothing but the output path has been looked at), and with
\* 1 <= s <= e it is rendered as ":<s>-<e>" after the degrees.  rotate itself
\* puts no condition on the Range it is given.
C16_CliRangeIsValid ==
    (Done /\ call.op = "cmd_rotate") =>
        /\ \A i \in Spawned : WellFormedRotateArg(trace[i].arg.args[2])
        /\ PagesRejected => (Len(trace) = 1 /\ call.pages.some)
        /\ (OutputWritable /\ call.pages.some
               /\ \A k \in DOMAIN call.pages.text : call.pages.text[k] # 45) =>
              PagesRejected
        /\ \A s, e \in 0..(MaxPage + 1) :
              (OutputWritable
                  /\ call.pages = SomeText(Decimal(s) \o <<45>> \o Decimal(e))) =>
                  IF s = 0 \/ e = 0 \/ s > e
                  THEN PagesRejected
                  ELSE /\ ~PagesRejected
                       /\ Len(trace) > 1
                       /\ \A i \in Spawned :
                             \E d \in {90, 180, 270} :
                                 trace[i].arg.args[2] =
                                     PlusDegrees(d) \o <<58>> \o Decimal(s)
                                         \o <<45>> \o Decimal(e)

\* C16's case: --degrees 90 --pages 1-2 on the command line; qpdf is spawned
\* with "+90:1-2".
C16_Witness ==
    /\ Done
    /\ call.op = "cmd_rotate"
    /\ call.degrees = "D90"
    /\ call.pages = SomeText(<<49, 45, 50>>)
    /\ \E i \in Spawned :
          trace[i].arg.args[2] = <<43, 57, 48, 58, 49, 45, 50>>

====
